---- MODULE Spec2Model ----
(***************************************************************************)
(* Model of gpu_probe/main.rs: the bootstrap that initialises logging,     *)
(* installs a panic hook, loads /vendor/lib64/libgpudataproducer.so,       *)
(* resolves the symbol "start" and calls it.                               *)
(*                                                                         *)
(* main is one sequential function; pc is its position.  The environment   *)
(* (what is on the filesystem, how the binary treats a panic, whether the  *)
(* logging call succeeds, how long the vendor function runs) is chosen     *)
(* nondeterministically.                                                   *)
(***************************************************************************)
EXTENDS Integers, Sequences, FiniteSets, TLC

\* Number of steps the opaque vendor function is observed to take while it
\* is running; it may return after any of them, or never.
MaxVendorTicks == 2

\* log::Level, ordered as the log crate orders it (Error is the most severe).
LevelError == 1
LevelInfo == 3

\* Process exit statuses.
ExitSuccess == 0
ExitPanic == 101
ExitAbort == 134

\* What is installed at /vendor/lib64/libgpudataproducer.so.
VendorLibStates == {"absent", "unloadable", "nosymbol", "ok"}

\* What the binary does after the panic hook has run.
PanicStrategies == {"unwind", "abort"}

VARIABLES
    vendorLib,          \* the file at the fixed path (environment)
    panicStrategy,      \* unwind or abort (build)
    pc,                 \* position of main
    loggerInitialised,  \* "uninit", "ok" or "failed": outcome of init_once
    log,                \* records main hands to the log facade that pass the
                        \* level filter, in order (delivery by the sink is
                        \* outside this program)
    hook,               \* "default" or "log_error"
    library,            \* gpudataproducer_library: "none", "loaded", "closed"
    symbol,             \* start: "none", "live", "dropped"
    loadAttempts,       \* calls of Library::new
    resolveAttempts,    \* calls of Library::get
    calls,              \* calls of start()
    vendorTicks,        \* progress of the vendor function while it runs
    panicMsg,           \* payload of the panic in progress, "none" if none
    exitStatus          \* meaningful once pc = "exited"

vars == <<vendorLib, panicStrategy, pc, loggerInitialised, log, hook, library,
          symbol, loadAttempts, resolveAttempts, calls, vendorTicks, panicMsg,
          exitStatus>>

----------------------------------------------------------------------------
\* Pure helpers

InfoMsg == "Starting pixel gpu_probe"

MinLevel_ErrorOnly == LevelError

\* Config::with_min_level(log::Level::Info)
MinLevel == LevelInfo

\* log::info! / log::error!: a record is kept when its level is at least as
\* severe as the configured minimum.
Emit(l, level, msg) ==
    IF level <= MinLevel THEN Append(l, [level |-> level, msg |-> msg]) ELSE l

\* Library::new(path): Ok only when the file exists and can be mapped.
LoadResult(lib) ==
    CASE lib = "absent" -> "DlOpen: library not found"
      [] lib = "unloadable" -> "DlOpen: cannot map library"
      [] OTHER -> "Ok"

\* Library::get(b"start"): Ok only when the library exports the symbol.
ResolveResult(lib) ==
    IF lib = "ok" THEN "Ok" ELSE "DlSym: undefined symbol start"

\* The description carried by the panic of Result::unwrap on Err(e).
UnwrapPanicMessage(e) ==
    CASE e = "DlOpen: library not found" -> "unwrap on Err: DlOpen: library not found"
      [] e = "DlOpen: cannot map library" -> "unwrap on Err: DlOpen: cannot map library"
      [] OTHER -> "unwrap on Err: DlSym: undefined symbol start"

----------------------------------------------------------------------------
Init ==
    /\ vendorLib \in VendorLibStates
    /\ panicStrategy \in PanicStrategies
    /\ pc = "init"
    /\ loggerInitialised = "uninit"
    /\ log = <<>>
    /\ hook = "default"
    /\ library = "none"
    /\ symbol = "none"
    /\ loadAttempts = 0
    /\ resolveAttempts = 0
    /\ calls = 0
    /\ vendorTicks = 0
    /\ panicMsg = "none"
    /\ exitStatus = ExitSuccess

----------------------------------------------------------------------------
\* main, statement by statement

InitLogging_Fatal ==
    /\ pc = "init"
    /\ \E outcome \in {"ok", "failed"} :
          /\ loggerInitialised' = outcome
          /\ IF outcome = "ok"
                THEN pc' = "log_info" /\ panicMsg' = panicMsg
                ELSE pc' = "panic_hook" /\ panicMsg' = "logger init failed"
    /\ UNCHANGED <<vendorLib, panicStrategy, log, hook, library, symbol,
                   loadAttempts, resolveAttempts, calls, vendorTicks,
                   exitStatus>>

\* android_logger::init_once(config): a statement whose outcome main never
\* inspects; control always continues with the next statement.
InitLogging ==
    /\ pc = "init"
    /\ \E outcome \in {"ok", "failed"} : loggerInitialised' = outcome
    /\ pc' = "log_info"
    /\ UNCHANGED <<vendorLib, panicStrategy, log, hook, library, symbol,
                   loadAttempts, resolveAttempts, calls, vendorTicks, panicMsg,
                   exitStatus>>

LogStarting_Twice ==
    /\ pc = "log_info"
    /\ log' = Emit(Emit(log, LevelInfo, InfoMsg), LevelInfo, InfoMsg)
    /\ pc' = "set_hook"
    /\ UNCHANGED <<vendorLib, panicStrategy, loggerInitialised, hook, library,
                   symbol, loadAttempts, resolveAttempts, calls, vendorTicks,
                   panicMsg, exitStatus>>

\* log::info!("Starting pixel gpu_probe")
LogStarting ==
    /\ pc = "log_info"
    /\ log' = Emit(log, LevelInfo, InfoMsg)
    /\ pc' = "set_hook"
    /\ UNCHANGED <<vendorLib, panicStrategy, loggerInitialised, hook, library,
                   symbol, loadAttempts, resolveAttempts, calls, vendorTicks,
                   panicMsg, exitStatus>>

SetHook_Skip ==
    /\ pc = "set_hook"
    /\ pc' = "load"
    /\ UNCHANGED <<vendorLib, panicStrategy, loggerInitialised, log, hook,
                   library, symbol, loadAttempts, resolveAttempts, calls,
                   vendorTicks, panicMsg, exitStatus>>

\* std::panic::set_hook(Box::new(|panic_msg| log::error!("{}", panic_msg)))
SetHook ==
    /\ pc = "set_hook"
    /\ hook' = "log_error"
    /\ pc' = "load"
    /\ UNCHANGED <<vendorLib, panicStrategy, loggerInitialised, log, library,
                   symbol, loadAttempts, resolveAttempts, calls, vendorTicks,
                   panicMsg, exitStatus>>

LoadLibrary_Swallow ==
    /\ pc = "load"
    /\ loadAttempts' = loadAttempts + 1
    /\ IF LoadResult(vendorLib) = "Ok"
          THEN library' = "loaded" /\ pc' = "resolve"
          ELSE library' = library /\ pc' = "return"
    /\ UNCHANGED <<vendorLib, panicStrategy, loggerInitialised, log, hook,
                   symbol, resolveAttempts, calls, vendorTicks, panicMsg,
                   exitStatus>>

\* libloading::Library::new("/vendor/lib64/libgpudataproducer.so").unwrap()
LoadLibrary ==
    /\ pc = "load"
    /\ loadAttempts' = loadAttempts + 1
    /\ IF LoadResult(vendorLib) = "Ok"
          THEN /\ library' = "loaded"
               /\ pc' = "resolve"
               /\ panicMsg' = panicMsg
          ELSE /\ library' = library
               /\ pc' = "panic_hook"
               /\ panicMsg' = UnwrapPanicMessage(LoadResult(vendorLib))
    /\ UNCHANGED <<vendorLib, panicStrategy, loggerInitialised, log, hook,
                   symbol, resolveAttempts, calls, vendorTicks, exitStatus>>

ResolveSymbol_NoCheck ==
    /\ pc = "resolve"
    /\ resolveAttempts' = resolveAttempts + 1
    /\ symbol' = IF ResolveResult(vendorLib) = "Ok" THEN "live" ELSE symbol
    /\ pc' = "call"
    /\ UNCHANGED <<vendorLib, panicStrategy, loggerInitialised, log, hook,
                   library, loadAttempts, calls, vendorTicks, panicMsg,
                   exitStatus>>

\* gpudataproducer_library.get(b"start").unwrap()
ResolveSymbol ==
    /\ pc = "resolve"
    /\ resolveAttempts' = resolveAttempts + 1
    /\ IF ResolveResult(vendorLib) = "Ok"
          THEN /\ symbol' = "live"
               /\ pc' = "call"
               /\ panicMsg' = panicMsg
          ELSE /\ symbol' = symbol
               /\ pc' = "panic_hook"
               /\ panicMsg' = UnwrapPanicMessage(ResolveResult(vendorLib))
    /\ UNCHANGED <<vendorLib, panicStrategy, loggerInitialised, log, hook,
                   library, loadAttempts, calls, vendorTicks, exitStatus>>

\* start(): control enters the vendor function.
CallStart ==
    /\ pc = "call"
    /\ calls' = calls + 1
    /\ pc' = "running"
    /\ UNCHANGED <<vendorLib, panicStrategy, loggerInitialised, log, hook,
                   library, symbol, loadAttempts, resolveAttempts, vendorTicks,
                   panicMsg, exitStatus>>

\* The vendor function does its own work; main is blocked in the call.
VendorRuns ==
    /\ pc = "running"
    /\ vendorTicks < MaxVendorTicks
    /\ vendorTicks' = vendorTicks + 1
    /\ UNCHANGED <<vendorLib, panicStrategy, pc, loggerInitialised, log, hook,
                   library, symbol, loadAttempts, resolveAttempts, calls,
                   panicMsg, exitStatus>>

StartReturns_CallAgain ==
    /\ pc = "running"
    /\ pc' = IF calls < 2 THEN "call" ELSE "drop_symbol"
    /\ UNCHANGED <<vendorLib, panicStrategy, loggerInitialised, log, hook,
                   library, symbol, loadAttempts, resolveAttempts, calls,
                   vendorTicks, panicMsg, exitStatus>>

\* The vendor function returns (it need not): the call statement completes
\* and control reaches the end of the unsafe block.
StartReturns ==
    /\ pc = "running"
    /\ pc' = "drop_symbol"
    /\ UNCHANGED <<vendorLib, panicStrategy, loggerInitialised, log, hook,
                   library, symbol, loadAttempts, resolveAttempts, calls,
                   vendorTicks, panicMsg, exitStatus>>

DropSymbol_LibraryFirst ==
    /\ pc = "drop_symbol"
    /\ library' = "closed"
    /\ pc' = "drop_library"
    /\ UNCHANGED <<vendorLib, panicStrategy, loggerInitialised, log, hook,
                   symbol, loadAttempts, resolveAttempts, calls, vendorTicks,
                   panicMsg, exitStatus>>

\* End of the block: locals are dropped in reverse order of declaration,
\* start (declared last) first.
DropSymbol ==
    /\ pc = "drop_symbol"
    /\ symbol' = "dropped"
    /\ pc' = "drop_library"
    /\ UNCHANGED <<vendorLib, panicStrategy, loggerInitialised, log, hook,
                   library, loadAttempts, resolveAttempts, calls, vendorTicks,
                   panicMsg, exitStatus>>

DropLibrary_Forget ==
    /\ pc = "drop_library"
    /\ pc' = "return"
    /\ UNCHANGED <<vendorLib, panicStrategy, loggerInitialised, log, hook,
                   library, symbol, loadAttempts, resolveAttempts, calls,
                   vendorTicks, panicMsg, exitStatus>>

\* ... then gpudataproducer_library: dropping a Library closes it.
DropLibrary ==
    /\ pc = "drop_library"
    /\ library' = "closed"
    /\ pc' = "return"
    /\ UNCHANGED <<vendorLib, panicStrategy, loggerInitialised, log, hook,
                   symbol, loadAttempts, resolveAttempts, calls, vendorTicks,
                   panicMsg, exitStatus>>

MainReturns_LogsExit ==
    /\ pc = "return"
    /\ log' = Emit(log, LevelInfo, "gpu_probe exiting")
    /\ exitStatus' = ExitSuccess
    /\ pc' = "exited"
    /\ UNCHANGED <<vendorLib, panicStrategy, loggerInitialised, hook, library,
                   symbol, loadAttempts, resolveAttempts, calls, vendorTicks,
                   panicMsg>>

\* The closing brace of main: the process exits with status 0.
MainReturns ==
    /\ pc = "return"
    /\ exitStatus' = ExitSuccess
    /\ pc' = "exited"
    /\ UNCHANGED <<vendorLib, panicStrategy, loggerInitialised, log, hook,
                   library, symbol, loadAttempts, resolveAttempts, calls,
                   vendorTicks, panicMsg>>

----------------------------------------------------------------------------
\* The panic raised by a failed unwrap

\* The runtime invokes the installed hook with the panic description; the
\* closure of main logs it at error severity and returns.  (The default hook
\* writes to stderr and leaves the log alone.)
PanicHook ==
    /\ pc = "panic_hook"
    /\ log' = IF hook = "log_error" THEN Emit(log, LevelError, panicMsg) ELSE log
    /\ pc' = panicStrategy
    /\ UNCHANGED <<vendorLib, panicStrategy, loggerInitialised, hook, library,
                   symbol, loadAttempts, resolveAttempts, calls, vendorTicks,
                   panicMsg, exitStatus>>

\* panic=unwind: the locals of main that are alive are dropped (the library,
\* when the panic came from the symbol resolution), and the runtime exits
\* with status 101.
Unwind ==
    /\ pc = "unwind"
    /\ library' = IF library = "loaded" THEN "closed" ELSE library
    /\ pc' = "unwound"
    /\ UNCHANGED <<vendorLib, panicStrategy, loggerInitialised, log, hook,
                   symbol, loadAttempts, resolveAttempts, calls, vendorTicks,
                   panicMsg, exitStatus>>

PanicExit ==
    /\ pc = "unwound"
    /\ exitStatus' = ExitPanic
    /\ pc' = "exited"
    /\ UNCHANGED <<vendorLib, panicStrategy, loggerInitialised, log, hook,
                   library, symbol, loadAttempts, resolveAttempts, calls,
                   vendorTicks, panicMsg>>

\* panic=abort: the process is killed by SIGABRT without running any drop.
Abort ==
    /\ pc = "abort"
    /\ exitStatus' = ExitAbort
    /\ pc' = "exited"
    /\ UNCHANGED <<vendorLib, panicStrategy, loggerInitialised, log, hook,
                   library, symbol, loadAttempts, resolveAttempts, calls,
                   vendorTicks, panicMsg>>

----------------------------------------------------------------------------
\* Steps taken by main and the runtime on its behalf (everything but the
\* vendor function's own progress and return).
BootstrapStep ==
    \/ InitLogging
    \/ LogStarting
    \/ SetHook
    \/ LoadLibrary
    \/ ResolveSymbol
    \/ CallStart
    \/ DropSymbol
    \/ DropLibrary
    \/ MainReturns
    \/ PanicHook
    \/ Unwind
    \/ PanicExit
    \/ Abort

Next ==
    \/ InitLogging
    \/ LogStarting
    \/ SetHook
    \/ LoadLibrary
    \/ ResolveSymbol
    \/ CallStart
    \/ VendorRuns
    \/ StartReturns
    \/ DropSymbol
    \/ DropLibrary
    \/ MainReturns
    \/ PanicHook
    \/ Unwind
    \/ PanicExit
    \/ Abort

Spec == Init /\ [][Next]_vars

\* A single thread runs main to completion: each statement of the bootstrap
\* is eventually executed.  Nothing obliges the vendor function to return.
FairSpec == Spec /\ WF_vars(BootstrapStep)

----------------------------------------------------------------------------
\* Vocabulary of the properties

InfoCount == Cardinality({i \in DOMAIN log : log[i].level = LevelInfo})

ErrorCount == Cardinality({i \in DOMAIN log : log[i].level = LevelError})

\* The load or the resolution fails in this environment.
SetupFails == LoadResult(vendorLib) # "Ok" \/ ResolveResult(vendorLib) # "Ok"

\* The error the failing step returns.
SetupError ==
    IF LoadResult(vendorLib) # "Ok" THEN LoadResult(vendorLib)
    ELSE ResolveResult(vendorLib)

Aborting == pc \in {"panic_hook", "unwind", "unwound", "abort"}

\* The bootstrap's state in the terms of the design's state machine, read
\* off the data (not off pc): the furthest milestone reached so far.
Phase ==
    IF panicMsg # "none" THEN "Aborted"
    ELSE IF calls > 0 THEN "Running"
    ELSE IF symbol = "live" THEN "SymbolResolved"
    ELSE IF library = "loaded" THEN "LibraryLoaded"
    ELSE IF hook = "log_error" THEN "HookInstalled"
    ELSE IF loggerInitialised # "uninit" THEN "LoggingReady"
    ELSE "Unstarted"

PhaseEdges ==
    { <<"Unstarted", "LoggingReady">>,
      <<"LoggingReady", "HookInstalled">>,
      <<"HookInstalled", "LibraryLoaded">>,
      <<"LibraryLoaded", "SymbolResolved">>,
      <<"SymbolResolved", "Running">>,
      <<"HookInstalled", "Aborted">>,
      <<"LibraryLoaded", "Aborted">> }

----------------------------------------------------------------------------
\* C1 - Fatal-path guarantee.  When the library load or the resolution of
\* "start" fails, start is never called, the process eventually terminates,
\* and it terminates with a non-zero status after at least one
\* error-severity line has been logged.
C1_FatalPath ==
    /\ [](SetupFails =>
            /\ calls = 0
            /\ pc \notin {"call", "running", "return"}
            /\ (pc = "exited" => exitStatus # ExitSuccess /\ ErrorCount >= 1))
    /\ (SetupFails ~> (pc = "exited" /\ exitStatus # ExitSuccess /\ ErrorCount >= 1))

C1_Witness ==
    /\ pc = "exited"
    /\ vendorLib = "unloadable"
    /\ exitStatus = ExitAbort
    /\ ErrorCount = 1

\* C2 - No silent swallow.  Whenever start is about to be invoked, is being
\* invoked or has been invoked, the library load and the symbol resolution
\* have both been performed and both succeeded, and no panic is in progress.
C2_NoSilentSwallow ==
    (pc \in {"call", "running"} \/ calls > 0) =>
        /\ loadAttempts = 1
        /\ LoadResult(vendorLib) = "Ok"
        /\ library # "none"
        /\ resolveAttempts = 1
        /\ ResolveResult(vendorLib) = "Ok"
        /\ symbol # "none"
        /\ panicMsg = "none"

C2_Witness == pc = "running" /\ calls = 1 /\ symbol = "live" /\ vendorTicks = 1

\* C3 - Single invocation.  start is called at most once: zero times on a
\* run that aborts, exactly once from the moment the call is made on a run
\* where load and resolution succeeded.  The load and the resolution are
\* each attempted at most once, and never again after a failure.
C3_SingleInvocation ==
    /\ calls <= 1
    /\ loadAttempts <= 1
    /\ resolveAttempts <= 1
    /\ (panicMsg # "none" => calls = 0 /\ pc # "load" /\ pc # "resolve" /\ pc # "call")
    /\ (pc = "exited" /\ exitStatus # ExitSuccess => calls = 0)
    /\ (pc = "exited" /\ exitStatus = ExitSuccess => calls = 1)
    /\ (pc \in {"running", "drop_symbol", "drop_library", "return"} => calls = 1)

C3_Witness == pc = "exited" /\ calls = 1 /\ loadAttempts = 1 /\ resolveAttempts = 1

\* C4 - Happy-path ordering.  The "Starting pixel gpu_probe" info line is in
\* the log before any attempt to load the library: there is no state where
\* the load is next or has been attempted and the line is missing.
C4_InfoBeforeLoad ==
    (pc = "load" \/ loadAttempts > 0) =>
        /\ Len(log) >= 1
        /\ log[1] = [level |-> LevelInfo, msg |-> InfoMsg]

C4_Witness == loadAttempts = 1 /\ pc = "resolve" /\ InfoCount = 1

\* C5 (as stated) - The library handle is never released before the process
\* has exited.
C5_NeverReleasedBeforeExit == pc # "exited" => library # "closed"

\* C5 (amended) - The handle stays loaded until start has returned.  It is
\* released by the bootstrap exactly in two cases, both before process exit:
\* at the end of the unsafe block once start has returned and the symbol
\* has been dropped, and while unwinding from a failed symbol resolution.
\* When start never returns, or the panic aborts, it is never released.
C5_ReleasedOnlyAfterReturn ==
    /\ (library = "closed" =>
          \/ /\ pc \in {"return", "exited"}
             /\ calls = 1
             /\ symbol = "dropped"
             /\ panicMsg = "none"
          \/ /\ pc \in {"unwound", "exited"}
             /\ panicStrategy = "unwind"
             /\ panicMsg = UnwrapPanicMessage(ResolveResult(vendorLib))
             /\ ResolveResult(vendorLib) # "Ok"
             /\ calls = 0)
    /\ (pc \in {"return", "exited"} /\ panicMsg = "none" => library = "closed")
    /\ (pc = "exited" /\ panicStrategy = "abort" /\ panicMsg # "none" => library # "closed")

C5_Witness == pc = "return" /\ library = "closed" /\ calls = 1

\* C6 - Handle outlives symbol.  While the resolved symbol exists or the
\* call through it is in progress the library is loaded; the library is
\* closed on the return path only after the symbol has been dropped.
C6_HandleOutlivesSymbol ==
    /\ (symbol = "live" \/ pc \in {"call", "running", "drop_symbol"} => library = "loaded")
    /\ (library = "closed" /\ calls > 0 => symbol = "dropped")
    /\ (symbol # "none" => library # "none")

C6_Witness == pc = "drop_library" /\ symbol = "dropped" /\ library = "loaded"

C9_NormalReturn ==
    /\ [](pc = "exited" /\ ~SetupFails =>
            /\ exitStatus = ExitSuccess
            /\ calls = 1
            /\ log = <<[level |-> LevelInfo, msg |-> InfoMsg]>>
            /\ ErrorCount = 0)
    /\ [][calls >= 1 => calls' = calls /\ log' = log /\ pc' # "call"]_vars

C9_Witness ==
    /\ pc = "exited"
    /\ exitStatus = ExitSuccess
    /\ vendorLib = "ok"
    /\ vendorTicks = MaxVendorTicks
    /\ InfoCount = 1

\* C10 - Log-line counts.  The info line is logged exactly once in every
\* execution, aborting ones included.  An execution that aborts on a load or
\* resolution failure logs exactly one error line, written by the panic hook
\* and carrying the description of that failure; after the panic has started
\* nothing is retried or resumed.
C10_LogLineCounts ==
    /\ [](InfoCount <= 1 /\ ErrorCount <= 1)
    /\ [](pc \notin {"init", "log_info"} =>
            InfoCount = 1 /\ log[1] = [level |-> LevelInfo, msg |-> InfoMsg])
    /\ [](pc \in {"unwind", "unwound", "abort"} \/ (pc = "exited" /\ SetupFails) =>
            /\ ErrorCount = 1
            /\ log = << [level |-> LevelInfo, msg |-> InfoMsg],
                        [level |-> LevelError, msg |-> UnwrapPanicMessage(SetupError)] >>)
    /\ [](ErrorCount = 1 => panicMsg # "none" /\ pc \notin {"panic_hook"})
    /\ [][panicMsg # "none" =>
            /\ panicMsg' = panicMsg
            /\ calls' = calls
            /\ loadAttempts' = loadAttempts
            /\ resolveAttempts' = resolveAttempts
            /\ symbol' = symbol
            /\ (Aborting' \/ pc' = "exited")]_vars

C10_Witness ==
    /\ pc = "exited"
    /\ vendorLib = "absent"
    /\ exitStatus = ExitPanic
    /\ ErrorCount = 1
    /\ InfoCount = 1

====
